---- MODULE Spec2Model ----
(***************************************************************************)
(* Dual-proof royalty pipeline of the ai-music-royalty-platform server:    *)
(*   - the attribution auditor job      (server/jobs/auditor.py)           *)
(*   - royalty event creation           (server/utils/royalties.py)        *)
(*   - the dual-proof status queries    (server/utils/dual_proof.py)       *)
(*   - the payout service               (server/routes/payouts.py)         *)
(*   - the chain abstraction            (server/utils/chain.py)            *)
(*   - result / placeholder-event writes (server/utils/db.py,              *)
(*     server/routes/compare.py) and usage-log ingestion (routes/sdk.py)   *)
(*   - partner request authentication   (server/middleware/auth.py,        *)
(*     server/utils/security.py)                                           *)
(*                                                                         *)
(* Conventions.  Time is counted in minutes.  Similarity and confidence    *)
(* are thousandths (850 stands for 0.85).  A royalty event's amount is in  *)
(* hundredths of a dollar (the value round(x, 2) stores).  Row ids stand   *)
(* for the uuid4 strings of the code: fresh, never reused.  The database   *)
(* tables are sets of rows; a query without ORDER BY returns its rows in   *)
(* an arbitrary order, so "data[0]" is any matching row.  The column the   *)
(* auditor calls generated_at and the column dual_proof.py calls           *)
(* created_at are the usage log's one timestamp.                           *)
(***************************************************************************)
EXTENDS Integers, Sequences, FiniteSets, TLC

\* ------------------------------------------------------------------ bounds
MaxResults == 2
MaxLogs == 2
MaxEvents == 3
MaxPayouts == 2
MaxReqLen == 2
MaxMatches == 1
MaxFaults == 1
MaxRows == 3
SysRows == 1
SysEvents == 2
RaceRows == 1
RaceEvents == 2
SettleEvents == 2
MaxHashLen == 6
MaxTokens == 2
MaxCaptured == 2

\* ------------------------------------------------------- program constants
DUAL_PROOF_WINDOW_MINUTES == 10
DUAL_PROOF_THRESHOLD == 850
AUDITOR_SIMILARITY_THRESHOLD == 850
AUDITOR_TIME_WINDOW_HOURS == 24
AUDITOR_BATCH_SIZE == 100
SDK_LOG_WINDOW_MINUTES == 60
ROYALTY_BASE_RATE == 10
COMPARE_SIMILARITY_THRESHOLD == 850
PLACEHOLDER_BASE_AMOUNT == 10
REQUEST_TIMESTAMP_MAX_AGE == 300
RATE_LIMIT_REFILL_RATE == 1

\* SQL NULL / Python None for ids, timestamps and confidences
NULL == -1

\* ------------------------------------------------------------------ domains
Artists == {"a1", "a2"}
Tracks == {"t1", "t2"}
\* tracks.artist_id: the track -> artist ownership lookup
TrackArtist == [t \in Tracks |-> IF t = "t1" THEN "a1" ELSE "a2"]
\* similarity scores an upload can produce: below and at the 0.85 threshold
Similarities == {800, 850}
\* LogUseRequest.confidence: Optional[float], ge=0, le=1
Confidences == {NULL, 900}
\* instants at which the clock is observed (minutes); the gaps straddle the
\* 10 minute, 60 minute and 24 hour windows
Clock == {0, 10, 61, 1501}
Promoters == {"p1", "p2"}
Requests == {"q1", "q2"}
\* partners holding an API key, request bodies and x-nonce header values
Partners == {"k1", "k2"}
Bodies == {"b1", "b2"}
Nonces == {"n1", "n2"}

VARIABLES
    now,        \* wall clock (datetime.utcnow())
    cfg,        \* AuditorConfig and the DUAL_PROOF_* module constants
    results,    \* table results
    logs,       \* table ai_use_logs
    events,     \* table royalty_events
    payouts,    \* table payouts (committed rows)
    items,      \* table payout_items (committed rows)
    aud,        \* per auditor instance: position in run_audit_cycle
    req,        \* per /payouts/create request slot: the call and its open transaction
    resp,       \* the response of the API call the last step completed, if any
    cap,        \* how many rows of each table a run may hold (the model's bound)
    faults,     \* datastore errors still to be injected
    gw          \* partner gateway: rate-limit buckets, request_nonces, requests seen on the wire

vars == <<now, cfg, cap, results, logs, events, payouts, items, aud, req, resp, faults, gw>>

\* ----------------------------------------------------------------- helpers
Abs(x) == IF x < 0 THEN -x ELSE x
Min(a, b) == IF a < b THEN a ELSE b
Max(a, b) == IF a > b THEN a ELSE b

\* round(n / d) for n >= 0, d > 0 (no exact halves arise for the domains used)
RoundDiv(n, d) == (2 * n + d) \div (2 * d)

RECURSIVE SumOver(_, _)
SumOver(S, f) ==
    IF S = {} THEN 0
    ELSE LET x == CHOOSE y \in S : TRUE IN f[x] + SumOver(S \ {x}, f)

\* all orderings of a finite set as sequences without repetition
Perms(S) == {s \in [1..Cardinality(S) -> S] : \A i, j \in DOMAIN s : i # j => s[i] # s[j]}

Range(s) == {s[i] : i \in DOMAIN s}

\* int(event.amount * 100) in IEEE-754 doubles: for these two-decimal amounts
\* k/100 the product falls just below k and int() truncates it to k - 1
\* (e.g. int(8.7 * 100) = 869)
TruncatedHundredths ==
    {29, 57, 58, 113, 114, 115, 116, 201, 203, 205, 207, 226, 228, 230, 232,
     251, 253, 255, 402, 406, 410, 414, 427, 431, 435, 439, 452, 456, 460,
     464, 477, 481, 485, 489, 502, 506, 510, 803, 804, 812, 820, 828, 829,
     837, 845, 853, 854, 862, 870, 878, 879, 887, 895, 903, 904, 912, 920,
     928, 929, 937, 945, 953, 954, 962, 970, 978, 979, 987, 995}

amount_cents(amount) == IF amount \in TruncatedHundredths THEN amount - 1 ELSE amount

\* ------------------------------------------------- royalties.py (pure part)
\* weight in millionths; similarity and sdk_confidence in thousandths
model_multipliers(model_tier) ==
    CASE model_tier = "free" -> 8
      [] model_tier = "standard" -> 10
      [] model_tier = "premium" -> 12
      [] OTHER -> 10

\* the product without the final clamp
calculate_payout_weight_unclamped(similarity, sdk_confidence, duration_seconds, model_tier) ==
    LET base_weight == 3 * similarity + 2 * sdk_confidence
        duration_num == IF duration_seconds = NULL THEN 180
                        ELSE Min(duration_seconds, 180)
    IN  (base_weight * duration_num * model_multipliers(model_tier)) \div 9

\* calculate_payout_weight, lines 48-99.  base_weight is kept in units of
\* 1/5000 (600 s + 400 c millionths = 200 (3 s + 2 c)), so that the product
\* with duration / 180 and multiplier / 10 is (3 s + 2 c) d m / 9 millionths
calculate_payout_weight(similarity, sdk_confidence, duration_seconds, model_tier) ==
    LET base_weight == 3 * similarity + 2 * sdk_confidence
        duration_num == IF duration_seconds = NULL THEN 180
                        ELSE Min(duration_seconds, 180)
        payout_weight == (base_weight * duration_num * model_multipliers(model_tier))
                            \div 9
    IN  Max(0, Min(1000000, payout_weight))

\* round(payout_weight * base_rate, 2), in hundredths of a dollar
calculate_payout_amount(payout_weight) ==
    RoundDiv(payout_weight * ROYALTY_BASE_RATE * 100, 1000000)

\* the row create_verified_royalty_event inserts (duration_seconds and
\* model_tier are absent from the rows insert_results and log_use write)
event_record(id, result, log) ==
    [id |-> id, track_id |-> result.track_id, result_id |-> result.id,
     ai_use_log_id |-> log.id, similarity |-> result.similarity,
     match_confidence |-> RoundDiv(600 * result.similarity + 400 * log.confidence, 1000),
     payout_weight |-> RoundDiv(calculate_payout_weight(result.similarity,
                                    log.confidence, NULL, "none"), 1000),
     amount |-> calculate_payout_amount(
                    calculate_payout_weight(result.similarity, log.confidence, NULL, "none")),
     status |-> "pending", paid_at |-> NULL]

\* ---------------------------------------------------- db.py, compare.py
\* the row trigger_royalty_event inserts: no result_id, no ai_use_log_id;
\* status is left to the column default
placeholder_record(id, track, similarity, total) ==
    [id |-> id, track_id |-> track, result_id |-> NULL, ai_use_log_id |-> NULL,
     similarity |-> similarity, match_confidence |-> NULL, payout_weight |-> NULL,
     amount |-> RoundDiv(PLACEHOLDER_BASE_AMOUNT * similarity * similarity, 10 * total),
     status |-> "pending", paid_at |-> NULL]

\* ------------------------------------------------------------ auditor.py
ZeroStats == [processed |-> 0, matched |-> 0, events_created |-> 0,
              already_processed |-> 0, no_sdk_log |-> 0, errors |-> 0]

ResultById(rid) == CHOOSE r \in results : r.id = rid
LogById(lid) == CHOOSE l \in logs : l.id = lid

\* the possible return values of fetch_recent_results: similarity >= threshold,
\* created_at >= now - time window, newest first (rows with equal created_at
\* in either order), at most batch_size rows; sequences of result ids
fetch_recent_results ==
    LET cutoff_time == now - AUDITOR_TIME_WINDOW_HOURS * 60
        rows == {r \in results : /\ r.similarity >= cfg.similarity_threshold
                                 /\ r.created_at >= cutoff_time}
        ordered == {s \in Perms(rows) :
                        \A i, j \in DOMAIN s : i < j => s[i].created_at >= s[j].created_at}
    IN  {[i \in 1..Min(Len(s), cfg.batch_size) |-> s[i].id] : s \in ordered}

\* the lookup without its track condition
find_matching_sdk_logs_on_any_track(track_id, result_created_at) ==
    LET time_before == result_created_at - SDK_LOG_WINDOW_MINUTES
        time_after == result_created_at + SDK_LOG_WINDOW_MINUTES
    IN  {l \in logs : /\ l.created_at >= time_before
                      /\ l.created_at <= time_after}

\* find_matching_sdk_logs, lines 103-146
find_matching_sdk_logs(track_id, result_created_at) ==
    LET time_before == result_created_at - SDK_LOG_WINDOW_MINUTES
        time_after == result_created_at + SDK_LOG_WINDOW_MINUTES
    IN  {l \in logs : /\ l.track_id = track_id
                      /\ l.created_at >= time_before
                      /\ l.created_at <= time_after}

check_if_already_processed(result_id) ==
    \E e \in events : e.result_id = result_id

NoResponse == [op |-> "none"]

\* move to the next result of the batch, or finish the cycle
NextResult(p, stats) ==
    IF aud[p].idx < Len(aud[p].batch)
    THEN [aud EXCEPT ![p].pc = "check", ![p].idx = @ + 1, ![p].log = NULL,
                     ![p].stats = stats]
    ELSE [aud EXCEPT ![p].pc = "idle", ![p].batch = <<>>, ![p].idx = 0,
                     ![p].log = NULL, ![p].stats = stats]

CurrentResult(p) == ResultById(aud[p].batch[aud[p].idx])

\* a datastore call either completes (failed = FALSE) or raises
DbCall(failed) ==
    /\ failed => faults > 0
    /\ faults' = IF failed THEN faults - 1 ELSE faults

\* royalties.py, update_royalty_event_status, lines 258-307: set the status of one event,
\* and paid_at when the status is 'paid'; any status is written for any
\* event; a datastore error is answered False
Statuses == {"pending", "approved", "paid", "disputed"}

update_royalty_event_status(event_id, status, failed) ==
    /\ DbCall(failed)
    /\ events' = IF failed THEN events
                 ELSE {IF e.id = event_id
                       THEN [e EXCEPT !.status = status,
                                      !.paid_at = IF status = "paid" THEN now ELSE @]
                       ELSE e : e \in events}
    /\ resp' = NoResponse
    /\ UNCHANGED <<now, cfg, cap, gw, results, logs, payouts, items, aud, req>>

\* run_audit_cycle, lines 255-269: reset the statistics and fetch the batch;
\* fetch_recent_results swallows a datastore error and returns []
CycleFetch(p) ==
    /\ aud[p].pc = "idle"
    /\ \E failed \in BOOLEAN :
         /\ DbCall(failed)
         /\ \E batch \in (IF failed THEN {<<>>} ELSE fetch_recent_results) :
              aud' = [aud EXCEPT ![p] =
                        [pc |-> IF batch = <<>> THEN "idle" ELSE "check",
                         batch |-> batch,
                         idx |-> IF batch = <<>> THEN 0 ELSE 1,
                         log |-> NULL, stats |-> ZeroStats]]
    /\ resp' = NoResponse
    /\ UNCHANGED <<now, cfg, cap, gw, results, logs, events, payouts, items, req>>

\* run_audit_cycle, lines 272-279: count the result and look it up;
\* check_if_already_processed swallows a datastore error and returns False
CycleCheck(p) ==
    /\ aud[p].pc = "check"
    /\ \E failed \in BOOLEAN :
         /\ DbCall(failed)
         /\ LET stats == [aud[p].stats EXCEPT !.processed = @ + 1]
                done == ~failed /\ check_if_already_processed(CurrentResult(p).id)
            IN  aud' = IF done
                       THEN NextResult(p, [stats EXCEPT !.already_processed = @ + 1])
                       ELSE [aud EXCEPT ![p].pc = "process", ![p].stats = stats]
    /\ resp' = NoResponse
    /\ UNCHANGED <<now, cfg, cap, gw, results, logs, events, payouts, items, req>>

\* process_result, lines 193-196: the second already-processed lookup
ProcessCheck(p) ==
    /\ aud[p].pc = "process"
    /\ \E failed \in BOOLEAN :
         /\ DbCall(failed)
         /\ LET done == ~failed /\ check_if_already_processed(CurrentResult(p).id)
            IN  aud' = [aud EXCEPT ![p].pc = IF done THEN "recheck" ELSE "find"]
    /\ resp' = NoResponse
    /\ UNCHANGED <<now, cfg, cap, gw, results, logs, events, payouts, items, req>>

\* process_result without its dry-run check
ProcessFind_ignoring_dry_run(p) ==
    /\ aud[p].pc = "find"
    /\ \E failed \in BOOLEAN :
         /\ DbCall(failed)
         /\ LET r == CurrentResult(p)
                sdk_logs == IF failed THEN {}
                            ELSE find_matching_sdk_logs(r.track_id, r.created_at)
            IN  IF sdk_logs = {}
                THEN aud' = [aud EXCEPT ![p].pc = "recheck"]
                ELSE \E sdk_log \in sdk_logs :
                       aud' = IF sdk_log.confidence = NULL
                              THEN NextResult(p, [aud[p].stats EXCEPT !.errors = @ + 1])
                              ELSE [aud EXCEPT ![p].pc = "insert", ![p].log = sdk_log.id]
    /\ resp' = NoResponse
    /\ UNCHANGED <<now, cfg, cap, gw, results, logs, events, payouts, items, req>>

\* process_result, lines 198-227: look up the usage logs, take sdk_logs[0],
\* build the DualProofMatch (pydantic rejects sdk_confidence = None, and the
\* exception reaches the except clause of run_audit_cycle), honour dry_run
ProcessFind(p) ==
    /\ aud[p].pc = "find"
    /\ \E failed \in BOOLEAN :
         /\ DbCall(failed)
         /\ LET r == CurrentResult(p)
                sdk_logs == IF failed THEN {}
                            ELSE find_matching_sdk_logs(r.track_id, r.created_at)
            IN  IF sdk_logs = {}
                THEN aud' = [aud EXCEPT ![p].pc = "recheck"]
                ELSE \E sdk_log \in sdk_logs :
                       aud' = IF sdk_log.confidence = NULL
                              THEN NextResult(p, [aud[p].stats EXCEPT !.errors = @ + 1])
                              ELSE IF cfg.dry_run
                              THEN [aud EXCEPT ![p].pc = "recheck"]
                              ELSE [aud EXCEPT ![p].pc = "insert", ![p].log = sdk_log.id]
    /\ resp' = NoResponse
    /\ UNCHANGED <<now, cfg, cap, gw, results, logs, events, payouts, items, req>>

\* create_verified_royalty_event, lines 157-228, and run_audit_cycle, lines
\* 284-286: insert the event; a datastore error is swallowed and None returned
ProcessInsert(p) ==
    /\ aud[p].pc = "insert"
    /\ \E failed \in BOOLEAN :
         /\ DbCall(failed)
         /\ IF failed
            THEN /\ aud' = [aud EXCEPT ![p].pc = "recheck", ![p].log = NULL]
                 /\ UNCHANGED events
            ELSE /\ Cardinality(events) < cap.events
                 /\ events' = events \cup
                        {event_record(Cardinality(events) + 1, CurrentResult(p),
                                      LogById(aud[p].log))}
                 /\ aud' = NextResult(p, [aud[p].stats EXCEPT !.matched = @ + 1,
                                                             !.events_created = @ + 1])
    /\ resp' = NoResponse
    /\ UNCHANGED <<now, cfg, cap, gw, results, logs, payouts, items, req>>

\* run_audit_cycle, lines 287-294: no event id came back; look the usage
\* logs up again to decide whether to count no_sdk_log
CycleRecheck(p) ==
    /\ aud[p].pc = "recheck"
    /\ \E failed \in BOOLEAN :
         /\ DbCall(failed)
         /\ LET r == CurrentResult(p)
                sdk_logs == IF failed THEN {}
                            ELSE find_matching_sdk_logs(r.track_id, r.created_at)
            IN  aud' = NextResult(p, IF sdk_logs = {}
                                     THEN [aud[p].stats EXCEPT !.no_sdk_log = @ + 1]
                                     ELSE aud[p].stats)
    /\ resp' = NoResponse
    /\ UNCHANGED <<now, cfg, cap, gw, results, logs, events, payouts, items, req>>

Promoter(p) ==
    \/ CycleFetch(p)
    \/ CycleCheck(p)
    \/ ProcessCheck(p)
    \/ ProcessFind(p)
    \/ ProcessInsert(p)
    \/ CycleRecheck(p)

\* ------------------------------------------------------------ environment
\* time passes
Tick ==
    /\ \E t \in Clock : t > now /\ now' = t
    /\ resp' = NoResponse
    /\ UNCHANGED <<cfg, cap, gw, results, logs, events, payouts, items, aud, req, faults>>

\* routes/sdk.py log_use, lines 127-162: a partner reports a use; the row's
\* timestamp is the column default (the time of the insert)
log_use(track_id, confidence) ==
    /\ Cardinality(logs) < cap.logs
    /\ logs' = logs \cup {[id |-> Cardinality(logs) + 1, track_id |-> track_id,
                           confidence |-> confidence, created_at |-> now]}
    /\ resp' = NoResponse
    /\ UNCHANGED <<now, cfg, cap, gw, results, events, payouts, items, aud, req, faults>>

\* the uploads compare_audio can process: the vector matches of one upload,
\* a similarity per matched track
Uploads ==
    UNION {[ts -> Similarities] :
             ts \in {x \in SUBSET Tracks : x # {} /\ Cardinality(x) <= MaxMatches}}

\* db.py insert_results, lines 145-191: one results row per match
insert_results(matches) ==
    LET tr == CHOOSE s \in Perms(DOMAIN matches) : TRUE
    IN  results \cup
          {[id |-> Cardinality(results) + i, track_id |-> tr[i],
            similarity |-> matches[tr[i]], created_at |-> now] : i \in DOMAIN tr}

\* db.py trigger_royalty_event, lines 226-278, called by compare_audio for
\* every match at or above SIMILARITY_THRESHOLD
trigger_royalty_event(matches) ==
    LET hot == {t \in DOMAIN matches : matches[t] >= COMPARE_SIMILARITY_THRESHOLD}
        tr == CHOOSE s \in Perms(hot) : TRUE
        total == SumOver(DOMAIN matches, matches)
    IN  events \cup
          {placeholder_record(Cardinality(events) + i, tr[i], matches[tr[i]], total) :
             i \in DOMAIN tr}

\* routes/compare.py compare_audio, lines 111-177
compare_audio(matches) ==
    /\ Cardinality(results) + Cardinality(DOMAIN matches) <= cap.results
    /\ Cardinality(trigger_royalty_event(matches)) <= cap.events
    /\ results' = insert_results(matches)
    /\ events' = trigger_royalty_event(matches)
    /\ resp' = NoResponse
    /\ UNCHANGED <<now, cfg, cap, gw, logs, payouts, items, aud, req, faults>>

\* ------------------------------------------------------------- chain.py
NoHash == <<>>

\* _send_demo_payout, lines 59-83: f"demo_{uuid4().hex[:16]}", always success
send_demo_payout(nonce) ==
    [tx_hash |-> <<"demo_", nonce>>, success |-> TRUE, error_message |-> "none",
     raised |-> FALSE]

\* _send_real_payout, lines 86-113
send_real_payout(artist_wallet) ==
    IF artist_wallet = NULL
    THEN [tx_hash |-> NoHash, success |-> FALSE,
          error_message |-> "Artist wallet address required for real payouts",
          raised |-> FALSE]
    ELSE [tx_hash |-> NoHash, success |-> FALSE,
          error_message |-> "NotImplementedError", raised |-> TRUE]

\* send_payout, lines 35-56
send_payout(artist_wallet, demo, nonce) ==
    IF demo THEN send_demo_payout(nonce) ELSE send_real_payout(artist_wallet)

\* the characters of a transaction hash: the literal prefix of the f-string
\* followed by the hexadecimal digits drawn for it
DemoPrefix == <<"d", "e", "m", "o", "_">>

hex(n) ==
    <<"0", "1", "2", "3", "4", "5", "6", "7",
      "8", "9", "a", "b", "c", "d", "e", "f">>[(n % 16) + 1]

hash_text(tx_hash) ==
    IF tx_hash = NoHash THEN <<>>
    ELSE (IF tx_hash[1] = "demo_" THEN DemoPrefix ELSE <<>>) \o <<hex(tx_hash[2])>>

\* str.startswith
startswith(s, prefix) ==
    /\ Len(s) >= Len(prefix)
    /\ \A i \in 1..Len(prefix) : s[i] = prefix[i]

\* the status check that trusts every hash
verify_demo_payout_status_trusting(tx_hash) ==
    [status |-> "confirmed", success |-> TRUE, raised |-> FALSE]

\* _verify_demo_payout_status, lines 133-147
verify_demo_payout_status(tx_hash) ==
    IF ~startswith(tx_hash, DemoPrefix)
    THEN [status |-> "invalid", success |-> FALSE, raised |-> FALSE]
    ELSE [status |-> "confirmed", success |-> TRUE, raised |-> FALSE]

\* _verify_real_payout_status, lines 150-157: NotImplementedError
verify_real_payout_status(tx_hash) ==
    [status |-> "NotImplementedError", success |-> FALSE, raised |-> TRUE]

\* verify_payout_status, lines 116-130
verify_payout_status(tx_hash, demo) ==
    IF demo THEN verify_demo_payout_status(tx_hash)
    ELSE verify_real_payout_status(tx_hash)

\* ------------------------------------- utils/security.py, middleware/auth.py
\* partner_id not in self.buckets
NoBucket == [tokens |-> NULL, last_refill |-> NULL]

IdleGateway == [buckets |-> [p \in Partners |-> NoBucket], nonces |-> {}, wire |-> {}]

\* derive_signing_secret, lines 198-214: a digest of the key's secret part
\* and the partner id
derive_signing_secret(api_key_secret, partner_id) ==
    <<"sha256", api_key_secret, partner_id>>

\* compute_request_signature, lines 116-145: HMAC-SHA256 under the signing
\* secret of "{method}\n{path}\n{timestamp}\n" followed by the body; the
\* x-nonce header is not part of the payload
compute_request_signature(method, path, body, timestamp, signing_secret) ==
    <<"hmac", signing_secret, method, path, timestamp, body>>

\* verify_request_signature, lines 148-195 (now and timestamp in minutes)
verify_request_signature(method, path, body, timestamp, provided_signature, signing_secret) ==
    /\ compute_request_signature(method, path, body, timestamp, signing_secret)
         = provided_signature
    /\ 60 * Abs(now - timestamp) <= REQUEST_TIMESTAMP_MAX_AGE

\* the limiter that never consumes a token
check_rate_limit_without_consuming(partner_id) ==
    LET bucket == IF gw.buckets[partner_id] = NoBucket
                  THEN [tokens |-> MaxTokens, last_refill |-> now]
                  ELSE gw.buckets[partner_id]
        time_elapsed == 60 * (now - bucket.last_refill)
        tokens == Min(MaxTokens, bucket.tokens + time_elapsed * RATE_LIMIT_REFILL_RATE)
    IN  IF tokens >= 1
        THEN [allowed |-> TRUE, retry_after |-> 0,
              bucket |-> [tokens |-> tokens, last_refill |-> now]]
        ELSE [allowed |-> FALSE,
              retry_after |-> (1 - tokens) \div RATE_LIMIT_REFILL_RATE,
              bucket |-> [tokens |-> tokens, last_refill |-> now]]

\* RateLimiter.check_rate_limit, lines 296-346, in-memory buckets: the
\* decision, retry_after and the bucket it writes back
check_rate_limit(partner_id) ==
    LET bucket == IF gw.buckets[partner_id] = NoBucket
                  THEN [tokens |-> MaxTokens, last_refill |-> now]
                  ELSE gw.buckets[partner_id]
        time_elapsed == 60 * (now - bucket.last_refill)
        tokens == Min(MaxTokens, bucket.tokens + time_elapsed * RATE_LIMIT_REFILL_RATE)
    IN  IF tokens >= 1
        THEN [allowed |-> TRUE, retry_after |-> 0,
              bucket |-> [tokens |-> tokens - 1, last_refill |-> now]]
        ELSE [allowed |-> FALSE,
              retry_after |-> (1 - tokens) \div RATE_LIMIT_REFILL_RATE,
              bucket |-> [tokens |-> tokens, last_refill |-> now]]

\* check_and_store_nonce, lines 164-212: the SELECT on (partner_id, nonce);
\* a datastore error is answered False
check_and_store_nonce(partner_id, nonce, failed) ==
    ~failed /\ <<partner_id, nonce>> \notin gw.nonces

PartnerResponse(code, detail, partner_id, retry_after) ==
    [op |-> "partner", code |-> code, detail |-> detail, partner_id |-> partner_id,
     retry_after |-> retry_after]

InvalidSignature == "Invalid signature or timestamp"
NonceUsed == "Nonce already used (replay attack prevented)"
RateLimitExceeded == "Rate limit exceeded"

\* the signed part of a request as it is seen on the wire
Signed(r) == [api_key |-> r.api_key, method |-> r.method, path |-> r.path,
              body |-> r.body, timestamp |-> r.timestamp, signature |-> r.signature]

\* authenticate_partner_request, lines 49-161, for a request that carries
\* all four headers and a valid API key (the key stands for its partner):
\* rate limit, then signature and timestamp, then nonce
authenticate_partner_request(r, failed) ==
    LET partner_id == r.api_key
        rate == check_rate_limit(partner_id)
        signing_secret == derive_signing_secret(r.api_key, partner_id)
        signed == verify_request_signature(r.method, r.path, r.body, r.timestamp,
                                           r.signature, signing_secret)
        accepted == /\ rate.allowed
                    /\ signed
                    /\ check_and_store_nonce(partner_id, r.nonce, failed)
    IN  /\ failed => (rate.allowed /\ signed)
        /\ DbCall(failed)
        /\ accepted => (Signed(r) \in gw.wire \/ Cardinality(gw.wire) < MaxCaptured)
        /\ resp' = IF ~rate.allowed
                   THEN PartnerResponse(429, RateLimitExceeded, partner_id, rate.retry_after)
                   ELSE IF ~signed
                   THEN PartnerResponse(401, InvalidSignature, partner_id, 0)
                   ELSE IF ~accepted
                   THEN PartnerResponse(401, NonceUsed, partner_id, 0)
                   ELSE PartnerResponse(200, "", partner_id, 0)
        /\ gw' = [gw EXCEPT !.buckets[partner_id] = rate.bucket,
                            !.nonces = IF accepted THEN @ \cup {<<partner_id, r.nonce>>}
                                       ELSE @,
                            !.wire = IF accepted THEN @ \cup {Signed(r)} ELSE @]
        /\ UNCHANGED <<now, cfg, cap, results, logs, events, payouts, items, aud, req>>

\* a partner signs and sends a request now
partner_request(partner, body, nonce, failed) ==
    LET signing_secret == derive_signing_secret(partner, partner)
    IN  authenticate_partner_request(
            [api_key |-> partner, method |-> "POST", path |-> "/sdk/log_use",
             body |-> body, timestamp |-> now, nonce |-> nonce,
             signature |-> compute_request_signature("POST", "/sdk/log_use", body,
                                                      now, signing_secret)],
            failed)

\* a party that has seen an accepted request sends it again, with the
\* x-nonce header and the body of its choice
replay_request(w, body, nonce, failed) ==
    /\ w \in gw.wire
    /\ authenticate_partner_request(
            [api_key |-> w.api_key, method |-> w.method, path |-> w.path,
             body |-> body, timestamp |-> w.timestamp, nonce |-> nonce,
             signature |-> w.signature],
            failed)

\* ------------------------------------------------------ middleware/auth.py
\* the value Depends(verify_artist_token) hands to a payouts route as
\* current_user.  verify_artist_token returns the artist id, a str; the routes
\* declare current_user: dict and read current_user["sub"], which a dependency
\* that returns the token's claims satisfies.  sub is the authenticated
\* artist in both shapes.
\* auth.py 388-468: the artist id of the artists row of the token's user
verify_artist_token(artist) == [type |-> "str", sub |-> artist]

\* a mapping with the artist id under "sub"
token_claims(artist) == [type |-> "dict", sub |-> artist]

CurrentUsers == {verify_artist_token(a) : a \in Artists} \cup {token_claims(a) : a \in Artists}

\* current_user["sub"]: subscripting a str with "sub" raises TypeError
subscript_sub(current_user) ==
    IF current_user.type = "dict"
    THEN [raised |-> FALSE, value |-> current_user.sub]
    ELSE [raised |-> TRUE, value |-> "TypeError"]

\* ------------------------------------------------------------ payouts.py
\* the event_ids lists of the requests: ids of rows and one id of no row, in
\* non-decreasing order (the code uses the list as a set, and its length)
IdLists ==
    {ids \in UNION {[1..n -> 1..(cap.events + 1)] : n \in 0..MaxReqLen} :
        \A i, j \in DOMAIN ids : i < j => ids[i] <= ids[j]}

IdleRequest == [pc |-> "idle", caller |-> "none", artist |-> "none", ids |-> <<>>,
                tx_payouts |-> {}, tx_items |-> {}]

\* the validating SELECT without its status and paid_at conditions
eligible_events_any_status(artist_id, event_ids) ==
    {e \in events : /\ e.id \in Range(event_ids)
                    /\ TrackArtist[e.track_id] = artist_id}

\* create_payout, lines 194-210: the rows of the validating SELECT
\*   WHERE re.id IN (event_ids) AND t.artist_id = :artist_id
\*   AND re.status = 'pending' AND re.paid_at IS NULL
eligible_events(artist_id, event_ids) ==
    {e \in events : /\ e.id \in Range(event_ids)
                    /\ TrackArtist[e.track_id] = artist_id
                    /\ e.status = "pending"
                    /\ e.paid_at = NULL}

\* the total as int(sum(event.amount) * 100) would give it
total_amount_cents_of_sum(rows) ==
    amount_cents(SumOver(rows, [e \in rows |-> e.amount]))

\* create_payout, line 219: sum(int(event.amount * 100) for event in events)
total_amount_cents(rows) ==
    SumOver(rows, [e \in rows |-> amount_cents(e.amount)])

\* create_payout, lines 238-261: one payout_items row per fetched event
payout_items(payout_id, rows) ==
    {[payout_id |-> payout_id, event_id |-> e.id,
      amount_cents |-> amount_cents(e.amount)] : e \in rows}

\* uuid4(): an id no committed row and no open transaction uses
FreshPayoutId ==
    CHOOSE i \in 1..(Cardinality(payouts) + Cardinality(Requests) + 1) :
        /\ \A p \in payouts : p.id # i
        /\ \A q \in Requests : \A p \in req[q].tx_payouts : p.id # i

\* the HTTP response of /payouts/create: the status code, the detail of an
\* error and, with 200, the PayoutReceipt.  An exception that is no
\* HTTPException and escapes the route is answered by the handler of
\* main.py 341-350.
Unhandled == "Internal server error. Contact support."
InternalError == "Internal server error"
AccessDenied == "Access denied"
EventsRejected == "Some events not found, already paid, or not owned by artist"
PayoutFailed == "Payout failed"

CreateResponse(code, detail, receipt) ==
    [op |-> "create", code |-> code, detail |-> detail, receipt |-> receipt]

\* create_payout, lines 178-261: the identity check (a TypeError of line 181
\* is raised outside the try block and answered 500), the connection and
\* BEGIN, the validating SELECT, and the INSERTs of the payout and its items
\* inside the transaction (rows of an open transaction are invisible to every
\* other connection).  conn is used as an SQLAlchemy async connection
\* (conn.begin(), conn.execute(text(...))); a get_db_connection() that yields
\* no such connection (db.py 86-93 returns the Supabase client) or a failing
\* statement is a datastore error: the except clause of lines 338-344
\* answers 500.
CreateBegin(q, current_user, artist_id, event_ids, failed) ==
    /\ req[q].pc = "idle"
    /\ LET sub == subscript_sub(current_user)
           rows == eligible_events(artist_id, event_ids)
           payout_id == FreshPayoutId
       IN  /\ failed => (~sub.raised /\ sub.value = artist_id)
           /\ DbCall(failed)
           /\ IF sub.raised
              THEN /\ resp' = CreateResponse(500, Unhandled, <<>>)
                   /\ UNCHANGED req
              ELSE IF sub.value # artist_id
              THEN /\ resp' = CreateResponse(403, AccessDenied, <<>>)
                   /\ UNCHANGED req
              ELSE IF failed
              THEN /\ resp' = CreateResponse(500, InternalError, <<>>)
                   /\ UNCHANGED req
              ELSE IF Cardinality(rows) # Len(event_ids)
              THEN /\ resp' = CreateResponse(400, EventsRejected, <<>>)
                   /\ UNCHANGED req
              ELSE /\ Cardinality(payouts)
                        + Cardinality({r \in Requests : req[r].pc = "open"}) < cap.payouts
                   /\ req' = [req EXCEPT ![q] =
                         [pc |-> "open", caller |-> sub.value, artist |-> artist_id,
                          ids |-> event_ids,
                          tx_payouts |-> {[id |-> payout_id, artist_id |-> artist_id,
                                           amount_cents |-> total_amount_cents(rows),
                                           status |-> "pending", tx_hash |-> NoHash,
                                           demo |-> NULL, completed_at |-> NULL]},
                          tx_items |-> payout_items(payout_id, rows)]]
                   /\ resp' = NoResponse
    /\ UNCHANGED <<now, cfg, cap, gw, results, logs, events, payouts, items, aud>>

\* the UPDATE without its WHERE clause
mark_events_paid_of_every_event(event_ids) ==
    {[e EXCEPT !.status = "paid", !.paid_at = now] : e \in events}

\* the UPDATE without its paid_at assignment
mark_events_paid_status_only(event_ids) ==
    {IF e.id \in Range(event_ids)
     THEN [e EXCEPT !.status = "paid"] ELSE e : e \in events}

\* create_payout, lines 301-310:
\*   UPDATE royalty_events SET paid_at = :paid_at, status = 'paid' WHERE id IN (event_ids)
mark_events_paid(event_ids) ==
    {IF e.id \in Range(event_ids)
     THEN [e EXCEPT !.status = "paid", !.paid_at = now] ELSE e : e \in events}

\* the exception path without the rollback: the rows inserted by the request
\* stay
Abort_without_rollback(q, detail) ==
    /\ resp' = CreateResponse(500, detail, <<>>)
    /\ payouts' = payouts \cup req[q].tx_payouts
    /\ items' = items \cup req[q].tx_items
    /\ UNCHANGED events

\* create_payout, lines 276-282 and 336-344: HTTPException(500) leaves the
\* "async with conn.begin()" block, which rolls the transaction back: the
\* payout and payout_items rows inserted by this request are discarded
Abort(q, detail) ==
    /\ resp' = CreateResponse(500, detail, <<>>)
    /\ UNCHANGED <<events, payouts, items>>

\* create_payout, lines 263-344: the chain transfer, then either the two
\* UPDATEs, COMMIT and the receipt, or the exception path.
\* payouts.py passes demo=True and artist_wallet=None; the request is also
\* run against the non-demo branch of send_payout, whose result has
\* success = False.  A datastore error in one of the UPDATEs raises as well.
CreateFinish(q, demo, failed) ==
    /\ req[q].pc = "open"
    /\ DbCall(failed)
    /\ LET payout == CHOOSE p \in req[q].tx_payouts : TRUE
           payout_result == send_payout(NULL, demo, payout.id)
           done == [payout EXCEPT !.tx_hash = payout_result.tx_hash, !.demo = TRUE,
                                  !.status = "completed", !.completed_at = now]
       IN  IF payout_result.raised \/ ~payout_result.success \/ failed
           THEN Abort(q, IF ~payout_result.raised /\ ~payout_result.success
                         THEN PayoutFailed ELSE InternalError)
           ELSE /\ payouts' = payouts \cup {done}
                /\ items' = items \cup req[q].tx_items
                /\ events' = mark_events_paid(req[q].ids)
                /\ resp' = CreateResponse(200, "",
                             [payout_id |-> done.id, artist_id |-> done.artist_id,
                              total_amount_cents |-> done.amount_cents,
                              tx_hash |-> done.tx_hash, demo |-> TRUE,
                              status |-> "completed",
                              items |-> {[event_id |-> i.event_id,
                                          amount_cents |-> i.amount_cents] :
                                            i \in req[q].tx_items}])
    /\ req' = [req EXCEPT ![q] = IdleRequest]
    /\ UNCHANGED <<now, cfg, cap, gw, results, logs, aud>>

create_payout(q) ==
    \/ \E current_user \in CurrentUsers, artist_id \in Artists, event_ids \in IdLists,
          failed \in BOOLEAN :
         CreateBegin(q, current_user, artist_id, event_ids, failed)
    \/ \E demo \in BOOLEAN, failed \in BOOLEAN : CreateFinish(q, demo, failed)

\* ---- the read-only routes of payouts.py
PreviewResponse(code, detail, preview) ==
    [op |-> "preview", code |-> code, detail |-> detail, preview |-> preview]

\* the SELECT without its status and paid_at conditions
unpaid_events_of_any_status(artist_id) ==
    {e \in events : TrackArtist[e.track_id] = artist_id}

\* get_payout_preview, lines 99-116: the rows of the SELECT
\*   WHERE t.artist_id = :artist_id AND re.status = 'pending'
\*   AND re.paid_at IS NULL
unpaid_events(artist_id) ==
    {e \in events : /\ TrackArtist[e.track_id] = artist_id
                    /\ e.status = "pending"
                    /\ e.paid_at = NULL}

\* get_payout_preview, lines 76-164 (the rows are listed without their
\* ORDER BY verified_at DESC position)
get_payout_preview(current_user, artist_id, failed) ==
    /\ LET sub == subscript_sub(current_user)
           rows == unpaid_events(artist_id)
       IN  /\ failed => (~sub.raised /\ sub.value = artist_id)
           /\ DbCall(failed)
           /\ resp' =
                IF sub.raised THEN PreviewResponse(500, Unhandled, <<>>)
                ELSE IF sub.value # artist_id
                THEN PreviewResponse(403, AccessDenied, <<>>)
                ELSE IF failed THEN PreviewResponse(500, InternalError, <<>>)
                ELSE PreviewResponse(200, "",
                       [artist_id |-> artist_id,
                        total_unpaid_events |-> Cardinality(rows),
                        total_amount_cents |-> total_amount_cents(rows),
                        events |-> {[event_id |-> e.id, track_id |-> e.track_id,
                                     amount_cents |-> amount_cents(e.amount),
                                     amount_usd |-> e.amount,
                                     similarity |-> e.similarity] : e \in rows}])
    /\ UNCHANGED <<now, cfg, cap, gw, results, logs, events, payouts, items, aud, req>>

ReceiptResponse(code, detail, receipt) ==
    [op |-> "receipt", code |-> code, detail |-> detail, receipt |-> receipt]

PayoutNotFound == "Payout not found"

\* get_payout_receipt, lines 347-444: the identity check of line 384 is
\* inside the try block, so its TypeError reaches the except clause of
\* lines 438-444
get_payout_receipt(current_user, payout_id, failed) ==
    /\ DbCall(failed)
    /\ LET sub == subscript_sub(current_user)
           found == {p \in payouts : p.id = payout_id}
           payout == CHOOSE p \in found : TRUE
       IN  resp' =
             IF failed THEN ReceiptResponse(500, InternalError, <<>>)
             ELSE IF found = {} THEN ReceiptResponse(404, PayoutNotFound, <<>>)
             ELSE IF sub.raised THEN ReceiptResponse(500, InternalError, <<>>)
             ELSE IF sub.value # payout.artist_id
             THEN ReceiptResponse(403, AccessDenied, <<>>)
             ELSE ReceiptResponse(200, "",
                    [payout_id |-> payout.id, artist_id |-> payout.artist_id,
                     total_amount_cents |-> payout.amount_cents,
                     tx_hash |-> payout.tx_hash, demo |-> payout.demo,
                     status |-> payout.status,
                     items |-> {[event_id |-> i.event_id,
                                 amount_cents |-> i.amount_cents] :
                                   i \in {x \in items : x.payout_id = payout_id}}])
    /\ UNCHANGED <<now, cfg, cap, gw, results, logs, events, payouts, items, aud, req>>

\* ---------------------------------------------------------- dual_proof.py
DualProofResult(status, sdk_log_id, result_id, royalty_event_id, similarity, sdk_confidence) ==
    [status |-> status, sdk_log_id |-> sdk_log_id, result_id |-> result_id,
     royalty_event_id |-> royalty_event_id, similarity |-> similarity,
     sdk_confidence |-> sdk_confidence]

\* .select("confidence").eq("id", sdk_log_id), lines 90-97
confidence_of(sdk_log_id) ==
    IF \E l \in logs : l.id = sdk_log_id THEN LogById(sdk_log_id).confidence ELSE NULL

\* lines 109-111 and 232-234: the +/- DUAL_PROOF_WINDOW_MINUTES window around
\* a row's timestamp
correlation_window_narrow(created_at) ==
    [window_start |-> created_at - (DUAL_PROOF_WINDOW_MINUTES - 1),
     window_end |-> created_at + (DUAL_PROOF_WINDOW_MINUTES - 1)]

correlation_window(created_at) ==
    [window_start |-> created_at - DUAL_PROOF_WINDOW_MINUTES,
     window_end |-> created_at + DUAL_PROOF_WINDOW_MINUTES]

\* the lookup with the royalty_events check ahead of the threshold check
get_dual_proof_status_for_result_events_first(result_id) ==
    IF ~\E r \in results : r.id = result_id
    THEN {DualProofResult("none", NULL, result_id, NULL, NULL, NULL)}
    ELSE
    LET result == ResultById(result_id)
        royalty_check == {e \in events : /\ e.result_id = result_id
                                         /\ e.track_id = result.track_id}
        window_start == correlation_window(result.created_at).window_start
        window_end == correlation_window(result.created_at).window_end
        sdk_logs == {l \in logs : /\ l.track_id = result.track_id
                                  /\ l.created_at >= window_start
                                  /\ l.created_at <= window_end}
    IN  IF royalty_check # {}
        THEN {DualProofResult("confirmed", e.ai_use_log_id, result_id, e.id,
                              result.similarity, confidence_of(e.ai_use_log_id)) :
                e \in royalty_check}
        ELSE IF result.similarity < DUAL_PROOF_THRESHOLD
        THEN {DualProofResult("none", NULL, result_id, NULL, result.similarity, NULL)}
        ELSE IF sdk_logs # {}
        THEN {DualProofResult("pending", l.id, result_id, NULL, result.similarity,
                              l.confidence) : l \in sdk_logs}
        ELSE {DualProofResult("none", NULL, result_id, NULL, result.similarity, NULL)}

\* get_dual_proof_status_for_result, lines 37-140: every DualProofResult the
\* call can return in the current state (one per row "data[0]" can be)
get_dual_proof_status_for_result(result_id) ==
    IF ~\E r \in results : r.id = result_id
    THEN {DualProofResult("none", NULL, result_id, NULL, NULL, NULL)}
    ELSE
    LET result == ResultById(result_id)
        royalty_check == {e \in events : /\ e.result_id = result_id
                                         /\ e.track_id = result.track_id}
        window_start == correlation_window(result.created_at).window_start
        window_end == correlation_window(result.created_at).window_end
        sdk_logs == {l \in logs : /\ l.track_id = result.track_id
                                  /\ l.created_at >= window_start
                                  /\ l.created_at <= window_end}
    IN  IF result.similarity < DUAL_PROOF_THRESHOLD
        THEN {DualProofResult("none", NULL, result_id, NULL, result.similarity, NULL)}
        ELSE IF royalty_check # {}
        THEN {DualProofResult("confirmed", e.ai_use_log_id, result_id, e.id,
                              result.similarity, confidence_of(e.ai_use_log_id)) :
                e \in royalty_check}
        ELSE IF sdk_logs # {}
        THEN {DualProofResult("pending", l.id, result_id, NULL, result.similarity,
                              l.confidence) : l \in sdk_logs}
        ELSE {DualProofResult("none", NULL, result_id, NULL, result.similarity, NULL)}

\* get_dual_proof_status_for_sdk_log, lines 185-263
get_dual_proof_status_for_sdk_log(log_id) ==
    IF ~\E l \in logs : l.id = log_id
    THEN {DualProofResult("none", log_id, NULL, NULL, NULL, NULL)}
    ELSE
    LET log == LogById(log_id)
        royalty_check == {e \in events : /\ e.ai_use_log_id = log_id
                                         /\ e.track_id = log.track_id}
        window_start == correlation_window(log.created_at).window_start
        window_end == correlation_window(log.created_at).window_end
        matching == {r \in results : /\ r.track_id = log.track_id
                                     /\ r.created_at >= window_start
                                     /\ r.created_at <= window_end
                                     /\ r.similarity >= DUAL_PROOF_THRESHOLD}
    IN  IF royalty_check # {}
        THEN {DualProofResult("confirmed", log_id, e.result_id, e.id, e.similarity,
                              log.confidence) : e \in royalty_check}
        ELSE IF matching # {}
        THEN {DualProofResult("pending", log_id, r.id, NULL, r.similarity,
                              log.confidence) : r \in matching}
        ELSE {DualProofResult("none", log_id, NULL, NULL, NULL, log.confidence)}

\* a caller asks for the dual-proof status of a result or of a usage log
\* (ids of rows, and one id of no row)
CorrelateResult(result_id) ==
    /\ \E out \in get_dual_proof_status_for_result(result_id) :
         resp' = [op |-> "correlate", kind |-> "result", id |-> result_id, out |-> out]
    /\ UNCHANGED <<now, cfg, cap, gw, results, logs, events, payouts, items, aud, req, faults>>

CorrelateLog(log_id) ==
    /\ \E out \in get_dual_proof_status_for_sdk_log(log_id) :
         resp' = [op |-> "correlate", kind |-> "usage_log", id |-> log_id, out |-> out]
    /\ UNCHANGED <<now, cfg, cap, gw, results, logs, events, payouts, items, aud, req, faults>>

correlate ==
    \/ \E result_id \in 1..(cap.results + 1) : CorrelateResult(result_id)
    \/ \E log_id \in 1..(cap.logs + 1) : CorrelateLog(log_id)

\* seed_dual_proof_pending.py, lines 50-62: the auditor model (an external
\* collaborator) writes a results row without going through /compare
auditor_result(track_id, similarity) ==
    /\ Cardinality(results) < cap.results
    /\ results' = results \cup {[id |-> Cardinality(results) + 1, track_id |-> track_id,
                                 similarity |-> similarity, created_at |-> now]}
    /\ resp' = NoResponse
    /\ UNCHANGED <<now, cfg, cap, gw, logs, events, payouts, items, aud, req, faults>>

Environment ==
    \/ Tick
    \/ \E t \in Tracks, c \in Confidences : log_use(t, c)
    \/ \E m \in Uploads : compare_audio(m)
    \/ \E t \in Tracks, sim \in Similarities : auditor_result(t, sim)

\* --------------------------------------------------------- specifications
IdleAuditor == [pc |-> "idle", batch |-> <<>>, idx |-> 0, log |-> NULL,
                stats |-> ZeroStats]

DefaultConfig == [similarity_threshold |-> AUDITOR_SIMILARITY_THRESHOLD,
                  batch_size |-> AUDITOR_BATCH_SIZE, dry_run |-> FALSE]

InitIdle ==
    /\ gw = IdleGateway
    /\ payouts = {}
    /\ items = {}
    /\ aud = [p \in Promoters |-> IdleAuditor]
    /\ req = [q \in Requests |-> IdleRequest]
    /\ resp = NoResponse

\* the whole system from empty tables: one auditor instance, settlement
\* requests one at a time, default configuration, no datastore errors
Init ==
    /\ InitIdle
    /\ now = 0
    /\ results = {}
    /\ logs = {}
    /\ events = {}
    /\ cfg = DefaultConfig
    /\ cap = [results |-> SysRows, logs |-> SysRows, events |-> SysEvents,
              payouts |-> SysRows]
    /\ faults = 0

Next ==
    \/ Environment
    \/ Promoter("p1")
    \/ create_payout("q1")

Spec == Init /\ [][Next]_vars

\* ---- tables the environment can have produced before a run starts: rows
\* written by auditor_result and log_use at instants of SeedTimes (ids in
\* the order of the inserts)
SeedTimes == {0, 10, 61}

ResultSeeds(n) ==
    UNION {{{[id |-> i, track_id |-> f[i].t, similarity |-> f[i].s,
              created_at |-> f[i].at] : i \in 1..k} :
              f \in {g \in [1..k -> [t : Tracks, s : Similarities, at : SeedTimes]] :
                       \A i, j \in 1..k : i < j => g[i].at <= g[j].at}} :
           k \in 0..n}

LogSeeds(n) ==
    UNION {{{[id |-> i, track_id |-> f[i].t, confidence |-> f[i].c,
              created_at |-> f[i].at] : i \in 1..k} :
              f \in {g \in [1..k -> [t : Tracks, c : Confidences, at : SeedTimes]] :
                       \A i, j \in 1..k : i < j => g[i].at <= g[j].at}} :
           k \in 0..n}

\* the thresholds AUDITOR_SIMILARITY_THRESHOLD / --threshold can be set to
AuditorThresholds == {800, AUDITOR_SIMILARITY_THRESHOLD}

\* ---- the auditor job and the dual-proof queries over seeded tables: one
\* auditor instance, either threshold, no datastore errors
InitAudit ==
    /\ InitIdle
    /\ now \in {61, 1501}
    /\ results \in ResultSeeds(MaxResults)
    /\ logs \in LogSeeds(MaxLogs)
    /\ Cardinality(results) + Cardinality(logs) <= MaxRows
    /\ events = {}
    /\ cfg \in {[DefaultConfig EXCEPT !.similarity_threshold = th] : th \in AuditorThresholds}
    /\ cap = [results |-> MaxResults, logs |-> MaxLogs, events |-> MaxEvents,
              payouts |-> 0]
    /\ faults = 0

NextAudit ==
    \/ Promoter("p1")
    \/ correlate

SpecAudit == InitAudit /\ [][NextAudit]_vars

\* ---- two auditor instances run cycles concurrently against the same tables
InitRace ==
    /\ InitIdle
    /\ now = 61
    /\ results \in ResultSeeds(RaceRows)
    /\ logs \in LogSeeds(RaceRows)
    /\ events = {}
    /\ cfg = DefaultConfig
    /\ cap = [results |-> RaceRows, logs |-> RaceRows, events |-> RaceEvents,
              payouts |-> 0]
    /\ faults = 0

NextRace == \E p \in Promoters : Promoter(p)

SpecRace == InitRace /\ [][NextRace]_vars

\* ---- settlement over seeded events: every track has a result and a usage
\* log, and its royalty event is either the auditor's (verified) or the
\* placeholder of compare_audio; two requests run concurrently
SettleSeeds == UNION {[1..k -> [t : Tracks, verified : BOOLEAN]] : k \in 0..SettleEvents}

SeedResult(i, t) ==
    [id |-> i, track_id |-> t, similarity |-> AUDITOR_SIMILARITY_THRESHOLD, created_at |-> 0]

SeedLog(i, t) == [id |-> i, track_id |-> t, confidence |-> 900, created_at |-> 0]

InitSettle ==
    /\ InitIdle
    /\ now = 61
    /\ \E f \in SettleSeeds :
         /\ results = {SeedResult(i, f[i].t) : i \in DOMAIN f}
         /\ logs = {SeedLog(i, f[i].t) : i \in DOMAIN f}
         /\ events = {IF f[i].verified
                      THEN event_record(i, SeedResult(i, f[i].t), SeedLog(i, f[i].t))
                      ELSE placeholder_record(i, f[i].t, AUDITOR_SIMILARITY_THRESHOLD,
                                              AUDITOR_SIMILARITY_THRESHOLD) :
                        i \in DOMAIN f}
    /\ cfg = DefaultConfig
    /\ cap = [results |-> SettleEvents, logs |-> SettleEvents, events |-> SettleEvents,
              payouts |-> MaxPayouts]
    /\ faults = MaxFaults

NextSettle == \E q \in Requests : create_payout(q)

SpecSettle == InitSettle /\ [][NextSettle]_vars

\* ---- the payouts routes one request at a time: create, preview, receipt
NextRoutes ==
    \/ create_payout("q1")
    \/ \E current_user \in CurrentUsers, artist_id \in Artists, failed \in BOOLEAN :
         get_payout_preview(current_user, artist_id, failed)
    \/ \E current_user \in CurrentUsers, payout_id \in 1..(cap.payouts + 1),
          failed \in BOOLEAN :
         get_payout_receipt(current_user, payout_id, failed)

SpecRoutes == InitSettle /\ [][NextRoutes]_vars

\* ---- one auditor instance run with or without --dry-run over seeded tables
\* while datastore calls can fail
InitCycle ==
    /\ InitIdle
    /\ now \in {61, 1501}
    /\ results \in ResultSeeds(MaxResults)
    /\ logs \in LogSeeds(MaxLogs)
    /\ Cardinality(results) + Cardinality(logs) <= MaxRows
    /\ events = {}
    /\ cfg \in {[DefaultConfig EXCEPT !.dry_run = d] : d \in BOOLEAN}
    /\ cap = [results |-> MaxResults, logs |-> MaxLogs, events |-> MaxEvents,
              payouts |-> 0]
    /\ faults = MaxFaults

NextCycle == Promoter("p1")

SpecCycle == InitCycle /\ [][NextCycle]_vars

\* ---- the chain layer called on its own: a call of send_payout, a call of
\* verify_payout_status on any text, or on the hash send_payout returned
HashChars == {"d", "e", "m", "o", "_"}

HashTexts == UNION {[1..n -> HashChars] : n \in 0..MaxHashLen}

Wallets == {NULL, 1}

ChainCall(tx_hash, artist_wallet, demo, nonce) ==
    [op |-> "call", tx_hash |-> tx_hash, artist_wallet |-> artist_wallet,
     demo |-> demo, nonce |-> nonce]

InitChain ==
    /\ gw = IdleGateway
    /\ payouts = {}
    /\ items = {}
    /\ aud = [p \in Promoters |-> IdleAuditor]
    /\ req = [q \in Requests |-> IdleRequest]
    /\ now = 0
    /\ results = {}
    /\ logs = {}
    /\ events = {}
    /\ cfg = DefaultConfig
    /\ cap = [results |-> 0, logs |-> 0, events |-> 0, payouts |-> 0]
    /\ faults = 0
    /\ resp \in {ChainCall(h, w, d, n) :
                   h \in HashTexts, w \in Wallets, d \in BOOLEAN, n \in 1..MaxPayouts}

call_send_payout ==
    /\ resp.op = "call"
    /\ resp' = [op |-> "send_payout", demo |-> resp.demo,
                result |-> send_payout(resp.artist_wallet, resp.demo, resp.nonce)]
    /\ UNCHANGED <<now, cfg, cap, gw, results, logs, events, payouts, items, aud, req, faults>>

call_verify_payout_status ==
    /\ \/ /\ resp.op = "call"
          /\ resp' = [op |-> "verify_payout_status", demo |-> resp.demo,
                      tx_hash |-> resp.tx_hash,
                      result |-> verify_payout_status(resp.tx_hash, resp.demo)]
       \/ /\ resp.op = "send_payout"
          /\ ~resp.result.raised
          /\ resp' = [op |-> "verify_payout_status", demo |-> resp.demo,
                      tx_hash |-> hash_text(resp.result.tx_hash),
                      result |-> verify_payout_status(hash_text(resp.result.tx_hash),
                                                      resp.demo)]
    /\ UNCHANGED <<now, cfg, cap, gw, results, logs, events, payouts, items, aud, req, faults>>

NextChain ==
    \/ call_send_payout
    \/ call_verify_payout_status

SpecChain == InitChain /\ [][NextChain]_vars

\* ---- the weight and amount functions called on their own, on scores
\* inside and outside [0, 1] (thousandths), durations absent, negative, zero,
\* short and long (seconds), and tiers absent, known and unknown
WeightScores == {-500, 0, 850, 1000, 1500}

WeightDurations == {NULL, -60, 0, 60, 180, 300}

WeightTiers == {"none", "free", "standard", "premium", "enterprise"}

InitWeight ==
    /\ gw = IdleGateway
    /\ payouts = {}
    /\ items = {}
    /\ aud = [p \in Promoters |-> IdleAuditor]
    /\ req = [q \in Requests |-> IdleRequest]
    /\ now = 0
    /\ results = {}
    /\ logs = {}
    /\ events = {}
    /\ cfg = DefaultConfig
    /\ cap = [results |-> 0, logs |-> 0, events |-> 0, payouts |-> 0]
    /\ faults = 0
    /\ resp \in [op : {"call"}, similarity : WeightScores, sdk_confidence : WeightScores,
                 duration_seconds : WeightDurations, model_tier : WeightTiers]

call_calculate_payout_weight ==
    /\ resp.op = "call"
    /\ resp' = [op |-> "calculate_payout_weight",
                similarity |-> resp.similarity,
                sdk_confidence |-> resp.sdk_confidence,
                duration_seconds |-> resp.duration_seconds,
                payout_weight |->
                    calculate_payout_weight(resp.similarity, resp.sdk_confidence,
                                            resp.duration_seconds, resp.model_tier)]
    /\ UNCHANGED <<now, cfg, cap, gw, results, logs, events, payouts, items, aud, req, faults>>

\* create_verified_royalty_event, lines 172-186: the stored weight is
\* round(payout_weight, 3), the amount calculate_payout_amount(payout_weight)
call_calculate_payout_amount ==
    /\ resp.op = "calculate_payout_weight"
    /\ resp' = [op |-> "calculate_payout_amount",
                payout_weight |-> RoundDiv(resp.payout_weight, 1000),
                amount |-> calculate_payout_amount(resp.payout_weight)]
    /\ UNCHANGED <<now, cfg, cap, gw, results, logs, events, payouts, items, aud, req, faults>>

NextWeight ==
    \/ call_calculate_payout_weight
    \/ call_calculate_payout_amount

SpecWeight == InitWeight /\ [][NextWeight]_vars

\* ---- the partner gateway: partners send signed requests, a party on the
\* wire replays the accepted ones, time passes
WireRequests ==
    {[api_key |-> p, method |-> "POST", path |-> "/sdk/log_use", body |-> b,
      timestamp |-> t,
      signature |-> compute_request_signature("POST", "/sdk/log_use", b, t,
                                               derive_signing_secret(p, p))] :
        p \in Partners, b \in Bodies, t \in Clock}

InitPartner ==
    /\ InitIdle
    /\ now = 0
    /\ results = {}
    /\ logs = {}
    /\ events = {}
    /\ cfg = DefaultConfig
    /\ cap = [results |-> 0, logs |-> 0, events |-> 0, payouts |-> 0]
    /\ faults = MaxFaults

NextPartner ==
    \/ \E partner \in Partners, body \in Bodies, nonce \in Nonces, failed \in BOOLEAN :
         partner_request(partner, body, nonce, failed)
    \/ \E w \in WireRequests, body \in Bodies, nonce \in Nonces, failed \in BOOLEAN :
         replay_request(w, body, nonce, failed)
    \/ Tick

SpecPartner == InitPartner /\ [][NextPartner]_vars

\* ---- the three writers of royalty_events: the auditor, the settlement
\* request and update_royalty_event_status; one event is seeded and a second
\* result is still to be promoted
InitStatus ==
    /\ InitIdle
    /\ now = 61
    /\ \E t \in Tracks :
         /\ results = {SeedResult(i, t) : i \in 1..SettleEvents}
         /\ logs = {SeedLog(i, t) : i \in 1..SettleEvents}
         /\ events = {event_record(1, SeedResult(1, t), SeedLog(1, t))}
    /\ cfg = DefaultConfig
    /\ cap = [results |-> SettleEvents, logs |-> SettleEvents, events |-> SettleEvents,
              payouts |-> 1]
    /\ faults = MaxFaults

NextStatus ==
    \/ Promoter("p1")
    \/ create_payout("q1")
    \/ \E event_id \in 1..SettleEvents, status \in Statuses, failed \in BOOLEAN :
         update_royalty_event_status(event_id, status, failed)

SpecStatus == InitStatus /\ [][NextStatus]_vars

\* ---- run_continuous: one auditor instance runs cycle after cycle over
\* seeded tables, dry_run off, no datastore errors, with the default batch
\* size or a batch of one row
BatchSizes == {1, AUDITOR_BATCH_SIZE}

InitContinuous ==
    /\ InitIdle
    /\ now = 61
    /\ results \in ResultSeeds(MaxResults)
    /\ logs \in LogSeeds(MaxLogs)
    /\ Cardinality(results) + Cardinality(logs) <= MaxRows
    /\ events = {}
    /\ cfg \in {[DefaultConfig EXCEPT !.batch_size = b] : b \in BatchSizes}
    /\ cap = [results |-> MaxResults, logs |-> MaxLogs, events |-> MaxEvents,
              payouts |-> 0]
    /\ faults = 0

NextContinuous == Promoter("p1")

\* the while True loop of run_continuous never stops taking steps
SpecContinuous ==
    InitContinuous /\ [][NextContinuous]_vars /\ WF_vars(NextContinuous)
\* ======================================================== properties
Tables == <<events, payouts, items>>

\* ---- C1: at most one RoyaltyEvent references any given result_id, under
\* any interleaving of the steps of two auditor instances
OneEventPerResult ==
    \A e1, e2 \in events :
        (e1.result_id # NULL /\ e1.result_id = e2.result_id) => e1 = e2

\* ---- C2: a RoyaltyEvent id appears in at most one PayoutItem, whatever the
\* interleaving of concurrent create requests: no event is paid by two payouts
OneItemPerEvent ==
    \A i1, i2 \in items : i1.event_id = i2.event_id => i1 = i2

ItemsOf(payout_id) == {i \in items : i.payout_id = payout_id}

PayoutIsSumOfItems ==
    \A p \in payouts :
        p.amount_cents = SumOver(ItemsOf(p.id), [i \in ItemsOf(p.id) |-> i.amount_cents])

\* a committed payout over two events of different amounts, one of them an
\* amount int(amount * 100) truncates
PayoutOverTwoAmounts ==
    \E p \in payouts : \E i1, i2 \in ItemsOf(p.id) :
        /\ i1.amount_cents # i2.amount_cents
        /\ \E e \in events : e.id = i1.event_id /\ e.amount # i1.amount_cents

\* ---- C5: when the chain transfer of a create request reports failure or
\* raises, the request answers 500, the committed tables are what they were,
\* and the rows the request inserted are gone
ChainFails(q, demo) ==
    LET payout == CHOOSE p \in req[q].tx_payouts : TRUE
        payout_result == send_payout(NULL, demo, payout.id)
    IN  payout_result.raised \/ ~payout_result.success

ChainFailureRollsBack ==
    [][\A q \in Requests, demo \in BOOLEAN, failed \in BOOLEAN :
         (/\ req[q].pc = "open"
          /\ ChainFails(q, demo)
          /\ CreateFinish(q, demo, failed))
         => /\ resp'.op = "create"
            /\ resp'.code = 500
            /\ UNCHANGED Tables
            /\ req'[q] = IdleRequest
            /\ \A p \in req[q].tx_payouts :
                   /\ \A c \in payouts' : c.id # p.id
                   /\ \A i \in items' : i.payout_id # p.id]_vars

\* a request over pending events has just answered 500 because the chain
\* transfer reported failure
ChainFailureAnswered ==
    /\ resp = CreateResponse(500, PayoutFailed, <<>>)
    /\ \E e \in events : e.status = "pending"

\* ---- C6: create(artist_id, event_ids) answers 400 and changes nothing when
\* a listed id is missing, on another artist's track, not pending, already
\* paid, or listed twice; the eligible part of the list is not paid (requests
\* of the caller's own artist that meet no datastore error)
Ineligible(artist_id, event_ids) ==
    \E i \in DOMAIN event_ids :
        \/ ~\E e \in events : e.id = event_ids[i]
        \/ \E e \in events : /\ e.id = event_ids[i]
                             /\ \/ TrackArtist[e.track_id] # artist_id
                                \/ e.status # "pending"
                                \/ e.paid_at # NULL
        \/ \E j \in DOMAIN event_ids : j # i /\ event_ids[j] = event_ids[i]

IneligibleRequestRejected ==
    [][(/\ ~(resp'.op = "create" /\ resp'.code \in {403, 500})
        /\ \E ids \in IdLists, a \in Artists :
              /\ Ineligible(a, ids)
              /\ \E q \in Requests : CreateBegin(q, token_claims(a), a, ids, FALSE))
       => /\ resp' = CreateResponse(400, EventsRejected, <<>>)
          /\ UNCHANGED <<Tables, req>>]_vars

\* a request has just been answered 400 while the artist has a paid and a
\* pending event: a list naming both has an eligible part
RejectedWithEligiblePart ==
    /\ resp = CreateResponse(400, EventsRejected, <<>>)
    /\ \E e1, e2 \in events :
         /\ TrackArtist[e1.track_id] = TrackArtist[e2.track_id]
         /\ e1.status = "paid"
         /\ e2.status = "pending"
    /\ \A q \in Requests : req[q].pc = "idle"

\* ---- C7: every RoyaltyEvent in the store references a result and a usage
\* log on the event's track, after any sequence of uploads, usage reports,
\* auditor cycles and settlements
EveryEventHasBothProofs ==
    \A e \in events :
        /\ \E r \in results : r.id = e.result_id /\ r.track_id = e.track_id
        /\ \E l \in logs : l.id = e.ai_use_log_id /\ l.track_id = e.track_id

\* ---- C8: once a RoyaltyEvent links result R and usage log L, the status
\* of R and the status of L are both confirmed with the same royalty_event_id
ConfirmedSymmetry ==
    \A e \in events :
        (e.result_id # NULL /\ e.ai_use_log_id # NULL) =>
            \A a \in get_dual_proof_status_for_result(e.result_id),
               b \in get_dual_proof_status_for_sdk_log(e.ai_use_log_id) :
                /\ a.status = "confirmed"
                /\ b.status = "confirmed"
                /\ a.royalty_event_id = b.royalty_event_id

\* ---- C9: a result and a usage log on the same track, similarity and
\* confidence at or above the threshold, timestamps at most the window apart
PairMatched(r, l) ==
    /\ r.track_id = l.track_id
    /\ r.similarity >= DUAL_PROOF_THRESHOLD
    /\ l.confidence >= DUAL_PROOF_THRESHOLD
    /\ Abs(r.created_at - l.created_at) <= DUAL_PROOF_WINDOW_MINUTES

PendingFromResult(r) ==
    \A a \in get_dual_proof_status_for_result(r.id) :
        /\ a.status = "pending"
        /\ a.royalty_event_id = NULL
        /\ \E l \in logs :
             /\ l.id = a.sdk_log_id
             /\ l.track_id = r.track_id
             /\ Abs(r.created_at - l.created_at) <= DUAL_PROOF_WINDOW_MINUTES

PendingFromLog(l) ==
    \A b \in get_dual_proof_status_for_sdk_log(l.id) :
        /\ b.status = "pending"
        /\ b.royalty_event_id = NULL
        /\ \E r \in results :
             /\ r.id = b.result_id
             /\ r.track_id = l.track_id
             /\ Abs(r.created_at - l.created_at) <= DUAL_PROOF_WINDOW_MINUTES

\* C9 as stated: for a matched pair with no RoyaltyEvent linking the two, the
\* status is pending with a counterpart on the track within the window, from
\* the result and from the usage log
PendingForUnlinkedPair ==
    \A r \in results, l \in logs :
        (/\ PairMatched(r, l)
         /\ ~\E e \in events : e.result_id = r.id /\ e.ai_use_log_id = l.id)
        => PendingFromResult(r) /\ PendingFromLog(l)

\* C9 amended: for a matched pair, the status of the result is pending when no
\* RoyaltyEvent references the result, and the status of the usage log is
\* pending when no RoyaltyEvent references the usage log
PendingForUnpromotedSide ==
    \A r \in results, l \in logs :
        PairMatched(r, l) =>
            /\ (~\E e \in events : e.result_id = r.id) => PendingFromResult(r)
            /\ (~\E e \in events : e.ai_use_log_id = l.id) => PendingFromLog(l)

\* the status of a result was asked for and came back pending, for a pair
\* exactly the window apart whose usage log another event already references
PendingAnswered ==
    /\ resp.op = "correlate"
    /\ resp.kind = "result"
    /\ resp.out.status = "pending"
    /\ \E r \in results, l \in logs :
         /\ r.id = resp.id
         /\ l.id = resp.out.sdk_log_id
         /\ PairMatched(r, l)
         /\ Abs(r.created_at - l.created_at) = DUAL_PROOF_WINDOW_MINUTES
         /\ ~\E e \in events : e.result_id = r.id
         /\ \E e \in events : e.ai_use_log_id = l.id

\* ---- C10: the status of a result whose similarity is below
\* DUAL_PROOF_THRESHOLD is none, whatever usage logs and RoyaltyEvents exist
NoneBelowThreshold ==
    \A r \in results :
        r.similarity < DUAL_PROOF_THRESHOLD =>
            \A a \in get_dual_proof_status_for_result(r.id) :
                a.status = "none" /\ a.royalty_event_id = NULL /\ a.sdk_log_id = NULL

\* the status of a result below the threshold was asked for while a
\* RoyaltyEvent references it and a usage log lies within its window
NoneAnsweredDespiteEvent ==
    /\ resp.op = "correlate"
    /\ resp.kind = "result"
    /\ resp.out.status = "none"
    /\ \E r \in results :
         /\ r.id = resp.id
         /\ r.similarity < DUAL_PROOF_THRESHOLD
         /\ \E e \in events : e.result_id = r.id
         /\ \E l \in logs : /\ l.track_id = r.track_id
                            /\ Abs(r.created_at - l.created_at) <= DUAL_PROOF_WINDOW_MINUTES

\* ---- C11: create and preview answer 403 whenever the authenticated
\* caller's identity differs from the requested artist_id, and the rejected
\* request changes no Payout, PayoutItem or RoyaltyEvent and opens no
\* transaction (so no chain transfer follows)
ForeignCallerRejected ==
    [][\A current_user \in CurrentUsers, a \in Artists :
         current_user.sub # a =>
           /\ \A q \in Requests, ids \in IdLists, failed \in BOOLEAN :
                CreateBegin(q, current_user, a, ids, failed)
                => /\ resp' = CreateResponse(403, AccessDenied, <<>>)
                   /\ UNCHANGED <<Tables, req>>
           /\ \A failed \in BOOLEAN :
                get_payout_preview(current_user, a, failed)
                => /\ resp' = PreviewResponse(403, AccessDenied, <<>>)
                   /\ UNCHANGED <<Tables, req>>]_vars

DatastoreErrorCounted ==
    [][\A p \in Promoters :
         (/\ aud[p].pc \in {"check", "process", "find", "insert"}
          /\ aud'[p] # aud[p]
          /\ faults' < faults)
         => aud'[p] = NextResult(p, [aud[p].stats EXCEPT
                                       !.errors = @ + 1,
                                       !.processed = IF aud[p].pc = "check"
                                                     THEN @ + 1 ELSE @])[p]]_vars

\* ---- C14: a preview answered 200 for artist_id changes no state; it lists
\* exactly the RoyaltyEvents that are pending with paid_at null on tracks of
\* artist_id, which are exactly the events a create request for artist_id
\* passes validation on, and its total is the sum of the listed cent amounts
PreviewListsPayable ==
    [][\A a \in Artists :
         (/\ resp'.op = "preview"
          /\ resp'.code = 200
          /\ resp'.preview.artist_id = a)
         => LET listed == {x.event_id : x \in resp'.preview.events}
            IN  /\ UNCHANGED <<Tables, req>>
                /\ listed = {e.id : e \in {x \in events :
                                             /\ TrackArtist[x.track_id] = a
                                             /\ x.status = "pending"
                                             /\ x.paid_at = NULL}}
                /\ Cardinality(resp'.preview.events) = Cardinality(listed)
                /\ resp'.preview.total_unpaid_events = Cardinality(listed)
                /\ \A ids \in IdLists :
                     Cardinality(Range(ids)) = Len(ids)
                     => (Cardinality(eligible_events(a, ids)) = Len(ids)
                           <=> Range(ids) \subseteq listed)
                /\ resp'.preview.total_amount_cents =
                     SumOver(resp'.preview.events,
                             [x \in resp'.preview.events |-> x.amount_cents])]_vars

\* a preview has listed an event of the artist while another event of the
\* same artist, already paid, is left out
PreviewLeavesPaidOut ==
    /\ resp.op = "preview"
    /\ resp.code = 200
    /\ resp.preview.total_unpaid_events >= 1
    /\ \E e \in events :
         /\ TrackArtist[e.track_id] = resp.preview.artist_id
         /\ e.status = "paid"
         /\ e.id \notin {x.event_id : x \in resp.preview.events}

\* ---- C15: receipt(payout_id) answers 404 when no Payout has that id and
\* 403 when the caller is not the Payout's artist; to the owner it returns
\* the stored amount, tx_hash, status and items; it never changes state
ReceiptOnlyToOwner ==
    [][\A current_user \in CurrentUsers, payout_id \in 1..(MaxPayouts + 1) :
         get_payout_receipt(current_user, payout_id, FALSE)
         => /\ UNCHANGED <<Tables, req>>
            /\ (\A p \in payouts : p.id # payout_id)
                 => resp' = ReceiptResponse(404, PayoutNotFound, <<>>)
            /\ \A p \in payouts :
                 p.id = payout_id
                 => IF current_user.sub # p.artist_id
                    THEN resp' = ReceiptResponse(403, AccessDenied, <<>>)
                    ELSE /\ resp'.code = 200
                         /\ resp'.receipt.payout_id = p.id
                         /\ resp'.receipt.total_amount_cents = p.amount_cents
                         /\ resp'.receipt.tx_hash = p.tx_hash
                         /\ resp'.receipt.status = p.status
                         /\ resp'.receipt.items =
                              {[event_id |-> i.event_id, amount_cents |-> i.amount_cents] :
                                 i \in {x \in items : x.payout_id = p.id}}]_vars

\* ---- C16: with dry_run enabled no step of any Promoter cycle changes the
\* royalty_events table, whatever results and usage logs exist
DryRunInsertsNothing ==
    [][cfg.dry_run => events' = events]_vars

\* a dry-run cycle without datastore errors has processed a result that has
\* a usable usage log (nothing counted as already processed, missing or
\* failed) and has left the table empty
DryRunSkippedPromotion ==
    /\ cfg.dry_run
    /\ faults = MaxFaults
    /\ aud["p1"].pc = "idle"
    /\ aud["p1"].stats.processed >= 1
    /\ aud["p1"].stats.no_sdk_log = 0
    /\ aud["p1"].stats.errors = 0
    /\ aud["p1"].stats.already_processed = 0
    /\ events = {}

\* ---- C17: in demo mode send_payout always returns success with a tx_hash
\* that begins with 'demo_' and no error message, and verify_payout_status
\* in demo mode reports confirmed for exactly the hashes that begin with
\* 'demo_' and invalid for all others
DemoChainContract ==
    /\ (resp.op = "send_payout" /\ resp.demo)
         => LET h == hash_text(resp.result.tx_hash)
            IN  /\ ~resp.result.raised
                /\ resp.result.success
                /\ resp.result.error_message = "none"
                /\ Len(h) > 5
                /\ <<h[1], h[2], h[3], h[4], h[5]>> = <<"d", "e", "m", "o", "_">>
    /\ (resp.op = "verify_payout_status" /\ resp.demo)
         => LET h == resp.tx_hash
                begins == /\ Len(h) >= 5
                          /\ <<h[1], h[2], h[3], h[4], h[5]>> = <<"d", "e", "m", "o", "_">>
            IN  /\ ~resp.result.raised
                /\ resp.result.status = IF begins THEN "confirmed" ELSE "invalid"
                /\ resp.result.success = begins

\* a hash that begins with 'demo' but not with 'demo_' has been reported
\* invalid in demo mode
NearMissReportedInvalid ==
    /\ resp.op = "verify_payout_status"
    /\ resp.demo
    /\ Len(resp.tx_hash) = MaxHashLen
    /\ <<resp.tx_hash[1], resp.tx_hash[2], resp.tx_hash[3], resp.tx_hash[4]>>
         = <<"d", "e", "m", "o">>
    /\ resp.tx_hash[5] # "_"
    /\ resp.result.status = "invalid"

\* ---- C18: for every combination of inputs (scores outside [0, 1], zero or
\* negative duration, unknown or absent tier) calculate_payout_weight returns
\* a value in [0, 1], so the stored payout_weight is in [0, 1] and the
\* amount lies between 0 and base_rate
WeightWithinUnitInterval ==
    /\ resp.op = "calculate_payout_weight"
         => (resp.payout_weight >= 0 /\ resp.payout_weight <= 1000000)
    /\ resp.op = "calculate_payout_amount"
         => /\ resp.payout_weight >= 0
            /\ resp.payout_weight <= 1000
            /\ resp.amount >= 0
            /\ resp.amount <= ROYALTY_BASE_RATE * 100

\* the function has clamped a product above 1 (scores above 1) or a
\* product below 0 (a negative duration)
ClampedOutOfRange ==
    /\ resp.op = "calculate_payout_weight"
    /\ \/ resp.similarity > 1000 /\ resp.payout_weight = 1000000
       \/ /\ resp.duration_seconds # NULL
          /\ resp.duration_seconds < 0
          /\ resp.similarity > 0
          /\ resp.sdk_confidence > 0
          /\ resp.payout_weight = 0

\* ---- C19: with one Promoter instance and no datastore errors, cycles run
\* one after another create at most one RoyaltyEvent per result; a result
\* that already has an event is skipped and counted as already_processed;
\* and once a cycle has completed, a later cycle over the unchanged tables
\* creates no event (the completed cycle leaves nothing a further cycle can
\* insert)
SkippedWhenProcessed ==
    \A p \in Promoters :
      (/\ aud[p].pc = "check"
       /\ aud'[p] # aud[p]
       /\ check_if_already_processed(CurrentResult(p).id))
      => /\ events' = events
         /\ aud'[p] = NextResult(p, [aud[p].stats EXCEPT
                                       !.processed = @ + 1,
                                       !.already_processed = @ + 1])[p]

CycleCompleted(p) == aud[p].pc = "idle" /\ aud[p].stats.processed >= 1

\* a further cycle over the present tables can insert an event: it fetches a
\* result that no event references and finds a usage log it can promote
FurtherCycleCanInsert ==
    /\ ~cfg.dry_run
    /\ \E batch \in fetch_recent_results :
         \E i \in DOMAIN batch :
           LET r == ResultById(batch[i])
           IN  /\ ~check_if_already_processed(r.id)
               /\ \E sdk_log \in find_matching_sdk_logs(r.track_id, r.created_at) :
                    sdk_log.confidence # NULL

SequentialCyclesIdempotent ==
    /\ [][SkippedWhenProcessed]_vars
    /\ [](/\ \A r \in results : Cardinality({e \in events : e.result_id = r.id}) <= 1
          /\ CycleCompleted("p1") => ~FurtherCycleCanInsert)

\* ---- C20: every RoyaltyEvent the Promoter inserts has status pending and
\* references a result with similarity at or above similarity_threshold
\* created within the last time_window_hours, together with a usage log on
\* the same track whose timestamp lies within sdk_log_window_minutes of the
\* result's created_at; a result with no such usage log has no event
InsertJustified ==
    \A e \in events' \ events :
      /\ e.status = "pending"
      /\ \E r \in results, l \in logs :
           /\ r.id = e.result_id
           /\ l.id = e.ai_use_log_id
           /\ r.similarity >= cfg.similarity_threshold
           /\ r.created_at >= now - AUDITOR_TIME_WINDOW_HOURS * 60
           /\ l.track_id = r.track_id
           /\ e.track_id = r.track_id
           /\ Abs(l.created_at - r.created_at) <= SDK_LOG_WINDOW_MINUTES

PromotedOnlyWithBothProofs ==
    /\ [][InsertJustified]_vars
    /\ [](\A r \in results :
            (\A l \in logs : l.track_id = r.track_id
                 => Abs(l.created_at - r.created_at) > SDK_LOG_WINDOW_MINUTES)
            => \A e \in events : e.result_id # r.id)

\* a finished cycle has promoted one result and has left another one, above
\* the threshold and inside the time window, whose only usage log on the
\* track lies outside the log window, without an event
PromotedOneLeftOne ==
    /\ aud["p1"].pc = "idle"
    /\ aud["p1"].stats.events_created = 1
    /\ aud["p1"].stats.no_sdk_log = 1
    /\ \E r \in results, l \in logs :
         /\ r.similarity >= cfg.similarity_threshold
         /\ r.created_at >= now - AUDITOR_TIME_WINDOW_HOURS * 60
         /\ l.track_id = r.track_id
         /\ Abs(l.created_at - r.created_at) > SDK_LOG_WINDOW_MINUTES
         /\ \A e \in events : e.result_id # r.id

\* ---- C21: a signed partner request that has been accepted once is never
\* accepted again: a replay of the same method, path, body, timestamp and
\* signature, whatever x-nonce header it carries, is refused (401, or 429
\* when the partner's bucket is empty)
ReplayRefused ==
    [][\A w \in WireRequests, nonce \in Nonces, failed \in BOOLEAN :
         replay_request(w, w.body, nonce, failed) => resp'.code \in {401, 429}]_vars

\* ---- C22: from a fresh bucket and with no time elapsing check_rate_limit
\* allows exactly max_tokens consecutive requests of a partner and refuses
\* every further one with retry_after > 0, independently of the requests of
\* other partners; a partner's token count never leaves [0, max_tokens].
\* Step by step: a request on a fresh bucket finds max_tokens tokens, a
\* request at the instant of the partner's previous one finds the tokens
\* that one left; it is allowed exactly when a token is there and takes
\* exactly one; no other partner's bucket changes.
RateLimitStep ==
    \A p \in Partners :
      (now' = now /\ resp'.op = "partner" /\ resp'.partner_id = p)
      => LET before == gw.buckets[p]
             after == gw'.buckets[p]
             fresh == before = NoBucket
             available == IF fresh THEN MaxTokens ELSE before.tokens
         IN  /\ (fresh \/ before.last_refill = now)
                  => /\ (resp'.code # 429) <=> (available >= 1)
                     /\ after.tokens = IF available >= 1 THEN available - 1 ELSE 0
                     /\ resp'.code = 429 => resp'.retry_after > 0
             /\ \A o \in Partners \ {p} : gw'.buckets[o] = gw.buckets[o]

RateLimitExact ==
    /\ [][RateLimitStep]_vars
    /\ [](\A p \in Partners :
            gw.buckets[p] # NoBucket
            => (gw.buckets[p].tokens >= 0 /\ gw.buckets[p].tokens <= MaxTokens))

\* a partner whose bucket is empty has just been refused with a positive
\* retry_after while the other partner, served at the same instant, still
\* holds a token
RefusedWhileOtherServed ==
    /\ resp.op = "partner"
    /\ resp.code = 429
    /\ resp.retry_after > 0
    /\ gw.buckets[resp.partner_id].tokens = 0
    /\ \E o \in Partners \ {resp.partner_id} :
         /\ gw.buckets[o] # NoBucket
         /\ gw.buckets[o].last_refill = now
         /\ gw.buckets[o].tokens = MaxTokens - 1

\* ---- C23: after any sequence of Promoter cycles each UsageLog is
\* referenced by at most one RoyaltyEvent, also when two results on the
\* same track both lie within the matching window of the same usage log
OneEventPerLog ==
    \A l \in logs : Cardinality({e \in events : e.ai_use_log_id = l.id}) <= 1

\* ---- C24: under repeated Promoter cycles (weak fairness, dry_run off, no
\* datastore errors) every result at or above the threshold, inside the
\* time window, with at least one usage log on its track within the
\* matching window (whatever the log's confidence) is eventually
\* referenced by a RoyaltyEvent, also with more qualifying results than
\* batch_size
Correlated(id) ==
    \E r \in results :
      /\ r.id = id
      /\ r.similarity >= cfg.similarity_threshold
      /\ r.created_at >= now - AUDITOR_TIME_WINDOW_HOURS * 60
      /\ find_matching_sdk_logs(r.track_id, r.created_at) # {}

EveryCorrelatedResultPromoted ==
    \A id \in 1..MaxResults :
      Correlated(id) ~> (\E e \in events : e.result_id = id)

\* ---- C25: when the already-processed lookup for a result fails with a
\* datastore error, the Promoter does not go on to promote that result in
\* that cycle (the idempotency check fails closed)
LookupFailsClosed ==
    [][\A p \in Promoters :
         (/\ aud[p].pc \in {"check", "process"}
          /\ aud'[p] # aud[p]
          /\ faults' < faults)
         => aud'[p].pc \notin {"process", "find", "insert"}]_vars

\* ---- C26: in every reachable state a RoyaltyEvent has paid_at set if and
\* only if its status is paid, across promotions, settlement requests and
\* update_royalty_event_status calls
PaidAtIffPaid ==
    \A e \in events : (e.paid_at # NULL) <=> (e.status = "paid")

PromotedOnlyWhenPending ==
    [][\A e \in events' \ events :
         e.result_id # NULL =>
           \A out \in get_dual_proof_status_for_result(e.result_id) :
             out.status = "pending"]_vars

\* ---- C29: the dual-proof status of a result never regresses: once the
\* Correlator can answer pending it never answers none afterwards, and once
\* it answers confirmed it answers confirmed with the same royalty_event_id
\* ever after
DualProofNeverRegresses ==
    [][\A r \in results :
         LET before == get_dual_proof_status_for_result(r.id)
             after == get_dual_proof_status_for_result(r.id)'
         IN  /\ (\E o \in before : o.status = "pending")
                  => \A o2 \in after : o2.status # "none"
             /\ \A o \in before :
                  o.status = "confirmed"
                    => \A o2 \in after : /\ o2.status = "confirmed"
                                         /\ o2.royalty_event_id = o.royalty_event_id]_vars

\* ---- C30: a successful create changes no RoyaltyEvent outside event_ids
\* and no Payout or PayoutItem of an earlier payout: every other event keeps
\* its status, paid_at and amount, and no event is added or removed
CreateChangesOnlySelected ==
    [][\A q \in Requests :
         (/\ req[q].pc = "open"
          /\ req'[q].pc = "idle"
          /\ resp'.op = "create"
          /\ resp'.code = 200)
         => /\ \A e \in events : e.id \notin Range(req[q].ids) => e \in events'
            /\ {e.id : e \in events'} = {e.id : e \in events}
            /\ payouts \subseteq payouts'
            /\ items \subseteq items']_vars

\* a create has succeeded for a non-empty selection while an earlier payout
\* with its item exists and an event lies outside the selection
PaidBesideEarlierPayout ==
    /\ resp.op = "create"
    /\ resp.code = 200
    /\ resp.receipt.items # {}
    /\ \E i \in items : i.payout_id # resp.receipt.payout_id
    /\ \E e \in events : e.id \notin {i.event_id : i \in resp.receipt.items}
====
